---- MODULE Spec2Model ----
\* Verification model of the pricing engine of projeto-integrador:
\* backend/utils.py calculate_price and eval_condition, with the callers in
\* pages/calculator.py and the fee storage of backend/database.py.
\*
\* Python evaluates calculate_price in IEEE-754 binary64.  TLC integers are
\* 32 bits wide, so a double is modelled bit-exactly on top of an
\* arbitrary-precision natural number kept as a little-endian sequence of
\* fixed-width limbs.  Every arithmetic operator below returns the correctly rounded
\* (round-half-to-even) double, as the hardware does.
EXTENDS Integers, Sequences, FiniteSets, TLC

\* the dict the last call of calculate_price returned
VARIABLE resultado

\* ---------------------------------------------------------------------------
\* Arbitrary-precision naturals (support for the binary64 model)
\* ---------------------------------------------------------------------------

\* width of a limb; any width up to 15 keeps limb products inside TLC's integers
LimbBits == 14

RECURSIVE Pow2(_)
Pow2(n) == IF n = 0 THEN 1 ELSE 2 * Pow2(n - 1)

Base == Pow2(LimbBits)

\* drop the most significant zero limbs
RECURSIVE BNorm(_)
BNorm(a) ==
  IF a = <<>> THEN <<>>
  ELSE IF a[Len(a)] = 0 THEN BNorm(SubSeq(a, 1, Len(a) - 1))
  ELSE a

RECURSIVE BFromInt(_)
BFromInt(n) == IF n = 0 THEN <<>> ELSE <<n % Base>> \o BFromInt(n \div Base)

BLimb(a, i) == IF i >= 1 /\ i <= Len(a) THEN a[i] ELSE 0

BMax(x, y) == IF x >= y THEN x ELSE y

RECURSIVE BAddFrom(_, _, _, _)
BAddFrom(a, b, i, carry) ==
  IF i > BMax(Len(a), Len(b))
  THEN (IF carry = 0 THEN <<>> ELSE <<carry>>)
  ELSE LET s == BLimb(a, i) + BLimb(b, i) + carry
       IN  <<s % Base>> \o BAddFrom(a, b, i + 1, s \div Base)

BAdd(a, b) == BAddFrom(a, b, 1, 0)

\* a - b for a >= b
RECURSIVE BSubFrom(_, _, _, _)
BSubFrom(a, b, i, borrow) ==
  IF i > Len(a) THEN <<>>
  ELSE LET d == BLimb(a, i) - BLimb(b, i) - borrow
       IN  IF d < 0 THEN <<d + Base>> \o BSubFrom(a, b, i + 1, 1)
           ELSE <<d>> \o BSubFrom(a, b, i + 1, 0)

BSub(a, b) == BNorm(BSubFrom(a, b, 1, 0))

\* -1, 0, 1 as a < b, a = b, a > b (both normalised)
RECURSIVE BCmpFrom(_, _, _)
BCmpFrom(a, b, i) ==
  IF i = 0 THEN 0
  ELSE IF a[i] < b[i] THEN -1
  ELSE IF a[i] > b[i] THEN 1
  ELSE BCmpFrom(a, b, i - 1)

BCmp(a, b) ==
  IF Len(a) < Len(b) THEN -1
  ELSE IF Len(a) > Len(b) THEN 1
  ELSE BCmpFrom(a, b, Len(a))

\* a * k for 0 <= k < Base
RECURSIVE BMulSmallFrom(_, _, _, _)
BMulSmallFrom(a, k, i, carry) ==
  IF i > Len(a)
  THEN (IF carry = 0 THEN <<>> ELSE <<carry>>)
  ELSE LET p == a[i] * k + carry
       IN  <<p % Base>> \o BMulSmallFrom(a, k, i + 1, p \div Base)

BMulSmall(a, k) == IF k = 0 THEN <<>> ELSE BMulSmallFrom(a, k, 1, 0)

BShiftLimbs(a, n) == IF a = <<>> THEN <<>> ELSE [i \in 1..n |-> 0] \o a

RECURSIVE BMulFrom(_, _, _)
BMulFrom(a, b, i) ==
  IF i > Len(b) THEN <<>>
  ELSE BAdd(BShiftLimbs(BMulSmall(a, b[i]), i - 1), BMulFrom(a, b, i + 1))

BMul(a, b) == BMulFrom(a, b, 1)

\* a * 2^n
BShl(a, n) == BShiftLimbs(BMulSmall(a, Pow2(n % LimbBits)), n \div LimbBits)

\* floor(a / 2^n)
BShr(a, n) ==
  LET drop == n \div LimbBits
      r    == Pow2(n % LimbBits)
      up   == Base \div r
  IN  IF drop >= Len(a) THEN <<>>
      ELSE BNorm([i \in 1..(Len(a) - drop) |->
                    (a[i + drop] \div r) + (BLimb(a, i + drop + 1) % r) * up])

RECURSIVE IntBitLen(_)
IntBitLen(n) == IF n = 0 THEN 0 ELSE 1 + IntBitLen(n \div 2)

BBitLen(a) == IF a = <<>> THEN 0 ELSE LimbBits * (Len(a) - 1) + IntBitLen(a[Len(a)])

\* bit k of a (bit 0 is the least significant)
BBit(a, k) == (BLimb(a, (k \div LimbBits) + 1) \div Pow2(k % LimbBits)) % 2

\* a mod 2^n = 0
BLowZero(a, n) ==
  /\ \A i \in 1..(n \div LimbBits) : BLimb(a, i) = 0
  /\ BLimb(a, (n \div LimbBits) + 1) % Pow2(n % LimbBits) = 0

BIsOdd(a) == BLimb(a, 1) % 2 = 1

\* the value of a as a TLC integer, for a < 2^30
BToInt(a) == BLimb(a, 1) + Base * (BLimb(a, 2) + Base * BLimb(a, 3))

\* the largest q in lo..hi with b * q <= r
RECURSIVE BQuoDigit(_, _, _, _)
BQuoDigit(r, b, lo, hi) ==
  IF lo = hi THEN lo
  ELSE LET mid == (lo + hi + 1) \div 2
       IN  IF BCmp(BMulSmall(b, mid), r) <= 0
           THEN BQuoDigit(r, b, mid, hi)
           ELSE BQuoDigit(r, b, lo, mid - 1)

\* quotient and remainder of a by b > 0: schoolbook long division, one limb of
\* a per step from limb i down
RECURSIVE BDivModFrom(_, _, _, _, _)
BDivModFrom(a, b, i, q, r) ==
  IF i = 0 THEN [quo |-> BNorm(q), rem |-> r]
  ELSE LET r2 == BNorm(<<a[i]>> \o r)
           d  == BQuoDigit(r2, b, 0, Base - 1)
       IN  BDivModFrom(a, b, i - 1, <<d>> \o q, BSub(r2, BMulSmall(b, d)))

\* the same for a one-limb divisor d: r is the running remainder
RECURSIVE BDivSmallFrom(_, _, _, _, _)
BDivSmallFrom(a, d, i, q, r) ==
  IF i = 0 THEN [quo |-> BNorm(q), rem |-> BFromInt(r)]
  ELSE LET n == r * Base + a[i]
       IN  BDivSmallFrom(a, d, i - 1, <<n \div d>> \o q, n % d)

BDivMod(a, b) ==
  IF Len(b) = 1 THEN BDivSmallFrom(a, b[1], Len(a), <<>>, 0)
  ELSE BDivModFrom(a, b, Len(a), <<>>, <<>>)

\* ---------------------------------------------------------------------------
\* IEEE-754 binary64 (the Python float): value = (-1)^neg * man * 2^exp with
\* man = 0 or 2^52 <= man < 2^53.  Subnormals, infinities and NaN lie outside
\* the magnitudes the model's inputs can produce and are not represented.
\* ---------------------------------------------------------------------------

MantBits == 53

FZero == [neg |-> FALSE, man |-> <<>>, exp |-> 0]

\* the double nearest to (n + sticky) * 2^e, ties to even; sticky stands for a
\* non-zero amount below the last bit of n and is used only when n has more
\* than MantBits + 1 bits
FRound(neg, n, e, sticky) ==
  LET len == BBitLen(n)
  IN  IF len = 0 THEN FZero
      ELSE IF len <= MantBits
      THEN [neg |-> neg, man |-> BShl(n, MantBits - len), exp |-> e - (MantBits - len)]
      ELSE LET s    == len - MantBits
               q    == BShr(n, s)
               half == BBit(n, s - 1) = 1
               rest == sticky \/ ~BLowZero(n, s - 1)
               q1   == IF half /\ (rest \/ BIsOdd(q)) THEN BAdd(q, <<1>>) ELSE q
           IN  IF BBitLen(q1) > MantBits
               THEN [neg |-> neg, man |-> BShr(q1, 1), exp |-> e + s + 1]
               ELSE [neg |-> neg, man |-> q1, exp |-> e + s]

\* float(n) for a Python int n
FFromInt(n) == IF n < 0 THEN FRound(TRUE, BFromInt(-n), 0, FALSE)
               ELSE FRound(FALSE, BFromInt(n), 0, FALSE)

FNeg(a) == IF a.man = <<>> THEN a ELSE [a EXCEPT !.neg = ~a.neg]

FMinInt(x, y) == IF x <= y THEN x ELSE y

\* a + b
FAdd(a, b) ==
  IF a.man = <<>> THEN b
  ELSE IF b.man = <<>> THEN a
  ELSE LET e  == FMinInt(a.exp, b.exp)
           am == BShl(a.man, a.exp - e)
           bm == BShl(b.man, b.exp - e)
           c  == BCmp(am, bm)
       IN  IF a.neg = b.neg THEN FRound(a.neg, BAdd(am, bm), e, FALSE)
           ELSE IF c = 0 THEN FZero
           ELSE IF c > 0 THEN FRound(a.neg, BSub(am, bm), e, FALSE)
           ELSE FRound(b.neg, BSub(bm, am), e, FALSE)

\* a - b
FSub(a, b) == FAdd(a, FNeg(b))

\* a * b
FMul(a, b) ==
  IF a.man = <<>> \/ b.man = <<>> THEN FZero
  ELSE FRound(a.neg # b.neg, BMul(a.man, b.man), a.exp + b.exp, FALSE)

\* the double nearest to (n / d) * 2^e for naturals n and d > 0
FRatio(neg, n, d, e) ==
  IF n = <<>> THEN FZero
  ELSE LET k  == BMax(0, MantBits + 2 + BBitLen(d) - BBitLen(n))
           qr == BDivMod(BShl(n, k), d)
       IN  FRound(neg, qr.quo, e - k, qr.rem # <<>>)

\* a / b for b # 0
FDiv(a, b) == FRatio(a.neg # b.neg, a.man, b.man, a.exp - b.exp)

\* the double a decimal literal with two places denotes: n / 100 for an int n
FDec(n) == IF n < 0 THEN FRatio(TRUE, BFromInt(-n), BFromInt(100), 0)
           ELSE FRatio(FALSE, BFromInt(n), BFromInt(100), 0)

\* -1, 0, 1 as a < b, a = b, a > b (exact)
FCmp(a, b) ==
  IF a.man = <<>> /\ b.man = <<>> THEN 0
  ELSE IF a.man = <<>> THEN (IF b.neg THEN 1 ELSE -1)
  ELSE IF b.man = <<>> THEN (IF a.neg THEN -1 ELSE 1)
  ELSE IF a.neg # b.neg THEN (IF a.neg THEN -1 ELSE 1)
  ELSE LET e == FMinInt(a.exp, b.exp)
           c == IF BBitLen(a.man) + a.exp # BBitLen(b.man) + b.exp
                THEN (IF BBitLen(a.man) + a.exp < BBitLen(b.man) + b.exp THEN -1 ELSE 1)
                ELSE BCmp(a.man, b.man)
       IN  IF a.neg THEN -c ELSE c

FGtZero(a) == a.man # <<>> /\ ~a.neg
FLeZero(a) == ~FGtZero(a)

\* |x| * 100 rounded to an integer, ties to even on the exact binary value:
\* the digits Python's round(x, 2) keeps
CentsOf(x) ==
  IF x.man = <<>> THEN <<>>
  ELSE IF x.exp >= 0 THEN BShl(BMulSmall(x.man, 100), x.exp)
  ELSE LET t    == BMulSmall(x.man, 100)
           s    == -x.exp
           q    == BShr(t, s)
           half == BBit(t, s - 1) = 1
           rest == ~BLowZero(t, s - 1)
       IN  IF half /\ (rest \/ BIsOdd(q)) THEN BAdd(q, <<1>>) ELSE q

\* Python round(x, 2): the correctly rounded two-place decimal of the exact
\* value of x, converted back to the nearest double
PyRound2(x) == FRatio(x.neg, CentsOf(x), BFromInt(100), 0)

\* ---------------------------------------------------------------------------
\* Fee records and condition text
\* ---------------------------------------------------------------------------
\* A fee (taxa) is the dict calculate_price reads:
\*   tipo_taxa   "fixa", "percentual" or another string
\*   valor       the amount, in hundredths (500 is 5.00)
\*   condicao    [kind, text]: kind "missing" (no key), "none" (None), "nan" (the
\*               float NaN pandas gives for an empty cell) or "str"; text is the
\*               string as its sequence of lexemes
\*   prioridade  <<>> when the key is absent, else <<p>>
\*   ativa       <<>> when the key is absent, else <<b>>
\* A lexeme is [t, s, v]: t is "ws" (white space), "word" (an identifier), "num"
\* (a decimal literal of value v hundredths), "op" (an operator), "lp", "rp" or
\* "preco" (the text str(preco) substituted for the placeholder); s is its
\* spelling.

Ws        == [t |-> "ws", s |-> " ", v |-> 0]
Word(w)   == [t |-> "word", s |-> w, v |-> 0]
Num(w, n) == [t |-> "num", s |-> w, v |-> n]
Op(o)     == [t |-> "op", s |-> o, v |-> 0]
PrecoLit  == [t |-> "preco", s |-> "", v |-> 0]

CondMissing == [kind |-> "missing", text |-> <<>>]
CondNone    == [kind |-> "none", text |-> <<>>]
CondNaN     == [kind |-> "nan", text |-> <<>>]
CondStr(tx) == [kind |-> "str", text |-> tx]

\* str.lower on one word
LowerWord(w) ==
  CASE w = "SEMPRE" -> "sempre"
    [] w = "Sempre" -> "sempre"
    [] w = "TRUE"   -> "true"
    [] w = "True"   -> "true"
    [] w = "NUNCA"  -> "nunca"
    [] w = "FALSE"  -> "false"
    [] w = "False"  -> "false"
    [] w = "PRECO"  -> "preco"
    [] w = "Preco"  -> "preco"
    [] w = "VALOR"  -> "valor"
    [] OTHER        -> w

\* str.lower
Lower(tx) == [i \in 1..Len(tx) |-> IF tx[i].t = "word" THEN Word(LowerWord(tx[i].s)) ELSE tx[i]]

\* a faulty variant: the text left untrimmed
SemStrip(tx) == tx

\* str.strip
RECURSIVE Strip(_)
Strip(tx) ==
  IF tx = <<>> THEN tx
  ELSE IF tx[1].t = "ws" THEN Strip(Tail(tx))
  ELSE IF tx[Len(tx)].t = "ws" THEN Strip(SubSeq(tx, 1, Len(tx) - 1))
  ELSE tx

\* str.replace(name, str(preco)): every occurrence of the placeholder name
\* becomes the decimal text of preco
Replace(tx, name) ==
  [i \in 1..Len(tx) |-> IF tx[i].t = "word" /\ tx[i].s = name THEN PrecoLit ELSE tx[i]]

\* the tokens Python's tokenizer hands to the parser: white space dropped
RECURSIVE Tokens(_)
Tokens(tx) ==
  IF tx = <<>> THEN <<>>
  ELSE IF tx[1].t = "ws" THEN Tokens(Tail(tx))
  ELSE <<tx[1]>> \o Tokens(Tail(tx))

\* Python eval on the token sequence: comparisons (chained), + - * /, unary
\* minus, parentheses, decimal literals and names.  A parse step returns
\* [ok, rt, val, pos]: ok is FALSE when the text does not compile (SyntaxError);
\* rt is TRUE when evaluation raises (NameError for a name, ZeroDivisionError);
\* val is the value as a double (True is 1.0, False is 0.0) and pos the next
\* token.  str(preco) parses back to the double preco itself (repr
\* round-trips).
EvalErr == [ok |-> FALSE, rt |-> FALSE, val |-> FZero, pos |-> 0]
EvalOk(v, p) == [ok |-> TRUE, rt |-> FALSE, val |-> v, pos |-> p]
EvalRaise(p) == [ok |-> TRUE, rt |-> TRUE, val |-> FZero, pos |-> p]

FBool(b) == IF b THEN FFromInt(1) ELSE FZero

IsOp(tk, i, ops) == i <= Len(tk) /\ tk[i].t = "op" /\ tk[i].s \in ops

\* a faulty variant: > and < read as >= and <=
CompareInclusivo(o, a, b) ==
  LET c == FCmp(a, b)
  IN  CASE o = ">"  -> c >= 0
        [] o = "<"  -> c <= 0
        [] o = ">=" -> c >= 0
        [] o = "<=" -> c <= 0
        [] o = "==" -> c = 0
        [] o = "!=" -> c # 0

Compare(o, a, b) ==
  LET c == FCmp(a, b)
  IN  CASE o = ">"  -> c > 0
        [] o = "<"  -> c < 0
        [] o = ">=" -> c >= 0
        [] o = "<=" -> c <= 0
        [] o = "==" -> c = 0
        [] o = "!=" -> c # 0

\* Each level of the grammar is a loop: parse one operand at token i, combine
\* it with the value so far under the pending operator op ("" for the first
\* operand), and go on while the next token is an operator of the level.
RECURSIVE ParseAtom(_, _, _)
RECURSIVE ParseProd(_, _, _, _, _, _)
RECURSIVE ParseSum(_, _, _, _, _, _)
RECURSIVE ParseCmp(_, _, _, _, _, _, _)

Negate(r) ==
  IF ~r.ok THEN EvalErr
  ELSE IF r.rt THEN EvalRaise(r.pos)
  ELSE EvalOk(FNeg(r.val), r.pos)

CloseParen(tk, r) ==
  IF r.ok /\ r.pos <= Len(tk) /\ tk[r.pos].t = "rp"
  THEN [r EXCEPT !.pos = r.pos + 1] ELSE EvalErr

\* abs(...) on the value of its argument
AbsOf(r) ==
  IF ~r.ok THEN EvalErr
  ELSE IF r.rt THEN EvalRaise(r.pos)
  ELSE EvalOk([r.val EXCEPT !.neg = FALSE], r.pos)

\* the token at i is the builtin abs and a parenthesis follows: a call
IsCall(tk, i) == tk[i].t = "word" /\ tk[i].s = "abs" /\ i < Len(tk) /\ tk[i + 1].t = "lp"

\* literal | str(preco) | abs ( comparison ) | name | - atom | ( comparison )
\* eval runs with the module's globals and the builtins: a call of abs is
\* executed; every other name of the texts modelled is unbound (NameError)
ParseAtom(tk, i, x) ==
  IF i > Len(tk) THEN EvalErr
  ELSE IF tk[i].t = "num" THEN EvalOk(FDec(tk[i].v), i + 1)
  ELSE IF tk[i].t = "preco" THEN EvalOk(x, i + 1)
  ELSE IF IsCall(tk, i)
  THEN AbsOf(CloseParen(tk, ParseCmp(tk, i + 2, x, FZero, TRUE, "", FALSE)))
  ELSE IF tk[i].t = "word" THEN EvalRaise(i + 1)
  ELSE IF IsOp(tk, i, {"-"}) THEN Negate(ParseAtom(tk, i + 1, x))
  ELSE IF tk[i].t = "lp" THEN CloseParen(tk, ParseCmp(tk, i + 1, x, FZero, TRUE, "", FALSE))
  ELSE EvalErr

Finish(acc, rt, i) == IF rt THEN EvalRaise(i) ELSE EvalOk(acc, i)

ProdStep(tk, x, acc, rt, op, r) ==
  LET nrt == rt \/ r.rt \/ (op = "/" /\ r.val.man = <<>>)
      nv  == IF nrt THEN FZero
             ELSE IF op = "*" THEN FMul(acc, r.val)
             ELSE IF op = "/" THEN FDiv(acc, r.val)
             ELSE r.val
  IN  IF ~r.ok THEN EvalErr
      ELSE IF IsOp(tk, r.pos, {"*", "/"})
      THEN ParseProd(tk, r.pos + 1, x, nv, nrt, tk[r.pos].s)
      ELSE Finish(nv, nrt, r.pos)

\* atom (('*' | '/') atom)*
ParseProd(tk, i, x, acc, rt, op) == ProdStep(tk, x, acc, rt, op, ParseAtom(tk, i, x))

SumStep(tk, x, acc, rt, op, r) ==
  LET nrt == rt \/ r.rt
      nv  == IF nrt THEN FZero
             ELSE IF op = "+" THEN FAdd(acc, r.val)
             ELSE IF op = "-" THEN FSub(acc, r.val)
             ELSE r.val
  IN  IF ~r.ok THEN EvalErr
      ELSE IF IsOp(tk, r.pos, {"+", "-"})
      THEN ParseSum(tk, r.pos + 1, x, nv, nrt, tk[r.pos].s)
      ELSE Finish(nv, nrt, r.pos)

\* product (('+' | '-') product)*
ParseSum(tk, i, x, acc, rt, op) ==
  SumStep(tk, x, acc, rt, op, ParseProd(tk, i, x, FZero, FALSE, ""))

CmpOps == {">", "<", ">=", "<=", "==", "!="}

\* a chain a < b < c is (a < b) and (b < c): once a comparison is false the
\* later operands are compiled but not evaluated.  left is the previous
\* operand, sofar the conjunction of the comparisons made.
CmpStep(tk, x, left, sofar, op, rt, r) ==
  LET live   == ~rt /\ sofar
      nrt    == rt \/ (live /\ r.rt)
      nsofar == IF op = "" \/ ~live \/ nrt THEN sofar ELSE Compare(op, left, r.val)
  IN  IF ~r.ok THEN EvalErr
      ELSE IF IsOp(tk, r.pos, CmpOps)
      THEN ParseCmp(tk, r.pos + 1, x, r.val, nsofar, tk[r.pos].s, nrt)
      ELSE IF nrt THEN EvalRaise(r.pos)
      ELSE IF op = "" THEN EvalOk(r.val, r.pos)
      ELSE EvalOk(FBool(nsofar), r.pos)

\* sum (cmpop sum)*
ParseCmp(tk, i, x, left, sofar, op, rt) ==
  CmpStep(tk, x, left, sofar, op, rt, ParseSum(tk, i, x, FZero, FALSE, ""))

\* the whole text must be one expression, and it must not raise
Whole(tk, r) == IF r.ok /\ ~r.rt /\ r.pos = Len(tk) + 1 THEN r ELSE EvalErr

EvalTokens(tk, x) == Whole(tk, ParseCmp(tk, 1, x, FZero, TRUE, "", FALSE))

\* eval(text): ok iff it compiles and evaluates without raising
PyEval(tx, x) == EvalTokens(Tokens(tx), x)

LiteralTrue  == {<<Word("sempre")>>, <<Word("true")>>, <<Num("1", 100)>>}
LiteralFalse == {<<Word("nunca")>>, <<Word("false")>>, <<Num("0", 0)>>}

\* the try block: eval of the substituted text; any exception gives True
EvalOrTrue(r) ==
  IF r.ok THEN [raised |-> FALSE, truthy |-> r.val.man # <<>>]
  ELSE [raised |-> FALSE, truthy |-> TRUE]

\* the body after condition = condition.lower().strip()
EvalText(c, preco) ==
  IF c \in LiteralTrue THEN [raised |-> FALSE, truthy |-> TRUE]
  ELSE IF c \in LiteralFalse THEN [raised |-> FALSE, truthy |-> FALSE]
  ELSE EvalOrTrue(PyEval(Replace(Replace(c, "preco"), "valor"), preco))

\* eval_condition(condition, preco): [raised, truthy].  raised: the call ends in
\* an exception (str methods on a value that is no str, outside the try);
\* truthy: the truth value of what it returns.
eval_condition(condition, preco) ==
  IF condition.kind # "str" THEN [raised |-> TRUE, truthy |-> FALSE]
  ELSE EvalText(Strip(Lower(condition.text)), preco)

\* ---------------------------------------------------------------------------
\* calculate_price
\* ---------------------------------------------------------------------------

\* taxa.get('prioridade', 999)
DefaultPrioridade == 999
Prioridade(t) == IF t.prioridade = <<>> THEN DefaultPrioridade ELSE t.prioridade[1]

\* insert t after every element whose key is not greater (stable)
RECURSIVE Insert(_, _)
Insert(sorted, t) ==
  IF sorted = <<>> THEN <<t>>
  ELSE IF Prioridade(sorted[Len(sorted)]) <= Prioridade(t) THEN Append(sorted, t)
  ELSE Append(Insert(SubSeq(sorted, 1, Len(sorted) - 1), t), sorted[Len(sorted)])

\* sorted(taxas, key=lambda x: x.get('prioridade', 999))
RECURSIVE SortByPrioridade(_)
SortByPrioridade(taxas) ==
  IF taxas = <<>> THEN <<>>
  ELSE Insert(SortByPrioridade(SubSeq(taxas, 1, Len(taxas) - 1)), taxas[Len(taxas)])

\* a faulty variant: taxas.sort(key=...), which orders the caller's list
OrdenadaNoLugar(taxas) == SortByPrioridade(taxas)

\* the caller's list after the call: sorted() builds a new list and the loop
\* only reads the records
ListaDepois(taxas) == taxas

\* a faulty variant: the flag is not read
SempreAtiva(t) == TRUE

\* taxa.get('ativa', True)
Ativa(t) == IF t.ativa = <<>> THEN TRUE ELSE t.ativa[1]

\* bool(taxa.get('condicao')): None, a missing key and '' are falsy; NaN and
\* every other string are truthy
TemCondicao(t) ==
  \/ t.condicao.kind = "nan"
  \/ t.condicao.kind = "str" /\ t.condicao.text # <<>>

\* a faulty variant: no try around the call of eval_condition
SemTentar(r) == r

\* try: ... except: continue -- an exception of eval_condition is caught and
\* the rule is left out
Tentar(r) == IF r.raised THEN [raised |-> FALSE, truthy |-> FALSE] ELSE r

\* if not eval_condition(...): continue / except: continue
Passa(r) == ~r.raised /\ r.truthy

\* the loop body's test: the rule reaches "Aplicar taxa"
Aplica(t, custo_total) ==
  /\ Ativa(t)
  /\ (~TemCondicao(t) \/ Passa(Tentar(eval_condition(t.condicao, custo_total))))

\* "Aplicar taxa": the running totals [fixa, perc] after rule t
Somar(t, tot) ==
  IF t.tipo_taxa = "fixa" THEN [tot EXCEPT !.fixa = FAdd(tot.fixa, FDec(t.valor))]
  ELSE IF t.tipo_taxa = "percentual"
  THEN [tot EXCEPT !.perc = FAdd(tot.perc, FDiv(FDec(t.valor), FFromInt(100)))]
  ELSE tot

\* the loop over taxas_sorted from index i on
RECURSIVE Acumular(_, _, _, _)
Acumular(sorted, i, custo_total, tot) ==
  IF i > Len(sorted) THEN tot
  ELSE Acumular(sorted, i + 1, custo_total,
                IF Aplica(sorted[i], custo_total) THEN Somar(sorted[i], tot) ELSE tot)

\* a faulty variant: the fixed total is kept from the call before
TotaisHerdados ==
  IF "taxa_fixa" \in DOMAIN resultado
  THEN [fixa |-> resultado.taxa_fixa, perc |-> FZero]
  ELSE [fixa |-> FZero, perc |-> FZero]

\* total_taxa_fixa = 0, total_taxa_percentual = 0
SemTaxas == [fixa |-> FZero, perc |-> FZero]

\* denominador = 1 - margem_desejada - total_taxa_percentual
Denominador(margem_desejada, perc) == FSub(FSub(FFromInt(1), margem_desejada), perc)

\* a faulty variant: the fixed fees left out of the numerator
PrecoSemTaxaFixa(custo_total, fixa, denominador) == FDiv(custo_total, denominador)

\* a faulty variant: the fixed fees subtracted from the cost
PrecoMenosTaxaFixa(custo_total, fixa, denominador) == FDiv(FSub(custo_total, fixa), denominador)

\* preco_sugerido = (custo_total + total_taxa_fixa) / denominador
PrecoSugerido(custo_total, fixa, denominador) == FDiv(FAdd(custo_total, fixa), denominador)

\* a faulty variant of the return statements: the fees are not taken off the
\* profit
RetornoLucroBruto(custo_total, tot, denominador, preco) ==
  LET taxa_total == FAdd(tot.fixa, FMul(preco, tot.perc))
      lucro      == FSub(preco, custo_total)
  IN  IF FLeZero(denominador)
      THEN [erro           |-> "Margem + Taxas percentuais >= 100%. Impossivel calcular.",
            preco_sugerido |-> FZero,
            taxa_total     |-> FZero,
            lucro_liquido  |-> FZero]
      ELSE [preco_sugerido  |-> PyRound2(preco),
            custo_total     |-> PyRound2(custo_total),
            taxa_total      |-> PyRound2(taxa_total),
            taxa_fixa       |-> PyRound2(tot.fixa),
            taxa_percentual |-> PyRound2(FMul(tot.perc, FFromInt(100))),
            lucro_liquido   |-> PyRound2(lucro),
            margem_real     |-> IF FGtZero(preco)
                                THEN PyRound2(FMul(FDiv(lucro, preco), FFromInt(100)))
                                ELSE FZero]

\* the return statements, given the loop's totals
Retorno(custo_total, tot, denominador, preco) ==
  LET taxa_total == FAdd(tot.fixa, FMul(preco, tot.perc))
      lucro      == FSub(FSub(preco, custo_total), taxa_total)
  IN  IF FLeZero(denominador)
      THEN [erro           |-> "Margem + Taxas percentuais >= 100%. Impossivel calcular.",
            preco_sugerido |-> FZero,
            taxa_total     |-> FZero,
            lucro_liquido  |-> FZero]
      ELSE [preco_sugerido  |-> PyRound2(preco),
            custo_total     |-> PyRound2(custo_total),
            taxa_total      |-> PyRound2(taxa_total),
            taxa_fixa       |-> PyRound2(tot.fixa),
            taxa_percentual |-> PyRound2(FMul(tot.perc, FFromInt(100))),
            lucro_liquido   |-> PyRound2(lucro),
            margem_real     |-> IF FGtZero(preco)
                                THEN PyRound2(FMul(FDiv(lucro, preco), FFromInt(100)))
                                ELSE FZero]

\* the price, where the denominator allows the division
Preco(custo_total, tot, denominador) ==
  IF FLeZero(denominador) THEN FZero
  ELSE PrecoSugerido(custo_total, tot.fixa, denominador)

Resolver(custo_total, tot, denominador) ==
  Retorno(custo_total, tot, denominador, Preco(custo_total, tot, denominador))

ComTotais(custo_total, tot, margem_desejada) ==
  Resolver(custo_total, tot, Denominador(margem_desejada, tot.perc))

\* what the caller gets when the call ends in an exception instead of a dict
Excecao == [excecao |-> TRUE]

\* the condition of rule t raises and the exception leaves the loop
Levanta(t, custo_total) ==
  /\ Ativa(t)
  /\ TemCondicao(t)
  /\ Tentar(eval_condition(t.condicao, custo_total)).raised

ComCustoTotal(custo_total, taxas, margem_desejada) ==
  IF \E i \in 1..Len(taxas) : Levanta(taxas[i], custo_total)
  THEN Excecao
  ELSE ComTotais(custo_total, Acumular(SortByPrioridade(taxas), 1, custo_total, SemTaxas),
                 margem_desejada)

\* a faulty variant: the shipping left out of custo_total
calculate_price_sem_frete(custo, frete, taxas, margem_desejada) ==
  ComCustoTotal(custo, taxas, margem_desejada)

\* calculate_price(custo, frete, taxas, margem_desejada) on doubles.  The
\* result is the returned dict; the infeasible dict has the key erro and only
\* three numeric keys.
calculate_price(custo, frete, taxas, margem_desejada) ==
  ComCustoTotal(FAdd(custo, frete), taxas, margem_desejada)

\* ---------------------------------------------------------------------------
\* Fee storage (taxas_plataforma.xlsx) as the calculator reads it
\* ---------------------------------------------------------------------------

\* a record as add_new_tax hands it to add_taxa: every key present, the
\* condition a string ("sempre" or the text typed, possibly empty)
DoFormulario(t) == t.prioridade # <<>> /\ t.ativa # <<>> /\ t.condicao.kind = "str"

\* one row through df.to_excel and pd.read_excel, then copied column by column
\* into a dict: an empty string is an empty cell and comes back as NaN
LerLinha(t) ==
  IF t.condicao.kind = "str" /\ t.condicao.text = <<>>
  THEN [t EXCEPT !.condicao = CondNaN]
  ELSE t

\* ---------------------------------------------------------------------------
\* State
\* ---------------------------------------------------------------------------

VARIABLES
  custo,            \* custo, in hundredths
  frete,            \* frete, in hundredths
  margem_desejada,  \* the margin in percent; the callers pass margem_desejada / 100
  taxas,            \* the fee list handed to calculate_price
  pc,               \* "input" before the call, "done" after it
  milesimos,        \* thousandths typed into custo_ajustado beyond the hundredths
  condicao,         \* the condition handed to eval_condition
  avaliacao,        \* what eval_condition did with it
  produtos,         \* the products selected for the batch, [custo, frete] each
  plataformas,      \* the fee list of each platform compared
  resultados,       \* the rows the batch or the comparison collected
  chamadas,         \* the calls made so far, [args, resultado] each
  taxas_sorted,     \* the rules in the order the last call went through them
  arq_produtos,     \* produtos.xlsx of the user: rows [id, sku]
  arq_plataformas,  \* plataformas.xlsx: rows [id, nome]
  arq_taxas,        \* taxas_plataforma.xlsx: rows [id, plataforma_id]
  arq_precificacoes,\* precificacoes.xlsx: rows [id, produto]
  cache,            \* _cache of the DatabaseManager: key to the table kept
  lock,             \* per DatabaseManager, the caller inside "with self.lock" or 0
  sessoes,          \* per caller of add_produto: [pc, sku, df]
  users_index,      \* users_index.xlsx: rows [email, user_folder_hash]
  retorno           \* what the last call of the storage returned

vars == <<custo, frete, margem_desejada, taxas, resultado, pc, milesimos,
          condicao, avaliacao, produtos, plataformas, resultados, chamadas,
          taxas_sorted, arq_produtos, arq_plataformas, arq_taxas, arq_precificacoes,
          cache, lock, sessoes, users_index, retorno>>

\* what the individual calculator leaves alone
\* the files, the managers and the callers of the storage
armazenamento == <<arq_produtos, arq_plataformas, arq_taxas, arq_precificacoes, cache, lock,
                   sessoes, users_index, retorno>>

SemRetorno == [op |-> "nenhuma", ok |-> FALSE]

\* the storage of a user just registered, nothing cached, nobody calling
ArmazenamentoVazio ==
  /\ arq_produtos = <<>>
  /\ arq_plataformas = <<>>
  /\ arq_taxas = <<>>
  /\ arq_precificacoes = <<>>
  /\ cache = <<>>
  /\ lock = <<>>
  /\ sessoes = <<>>
  /\ users_index = <<>>
  /\ retorno = SemRetorno

alheias == <<milesimos, condicao, avaliacao, produtos, plataformas, resultados, chamadas,
             taxas_sorted, armazenamento>>

\* longest fee list
MaxTaxas == 3

Lp == [t |-> "lp", s |-> "(", v |-> 0]
Rp == [t |-> "rp", s |-> ")", v |-> 0]

Taxa(tipo, valor, cond, prio, ativa) ==
  [tipo_taxa |-> tipo, valor |-> valor, condicao |-> cond, prioridade |-> prio,
   ativa |-> ativa]

\* the fees requests are built from, in the order the lists keep
Catalogo == <<
  Taxa("fixa", 500, CondStr(<<Word("preco"), Ws, Op(">"), Ws, Num("50", 5000)>>), <<1>>, <<TRUE>>),
  Taxa("fixa", 500, CondStr(<<Word("preco"), Ws, Op(">"), Ws, Num("30", 3000)>>), <<2>>, <<TRUE>>),
  Taxa("percentual", 2000, CondMissing, <<>>, <<>>),
  Taxa("percentual", 8200, CondStr(<<Ws, Word("Sempre"), Ws>>), <<50>>, <<TRUE>>),
  Taxa("percentual", 1000, CondNone, <<3>>, <<TRUE>>),
  Taxa("percentual", 7000, CondStr(<<>>), <<1>>, <<TRUE>>),
  Taxa("fixa", 250, CondStr(<<Word("preco"), Ws, Op(">")>>), <<5>>, <<TRUE>>),
  Taxa("fixa", 1000, CondMissing, <<1>>, <<FALSE>>),
  Taxa("outra", 900, CondStr(<<Word("nunca")>>), <<2>>, <<TRUE>>),
  Taxa("percentual", 1500, CondStr(<<Op(">"), Ws, Num("10", 1000)>>), <<>>, <<FALSE>>)
>>

\* the increasing index sequences of length at most n over 1..m
RECURSIVE Escolhas(_, _)
Escolhas(m, n) ==
  IF n = 0 \/ m = 0 THEN {<<>>}
  ELSE Escolhas(m - 1, n) \cup {Append(e, m) : e \in Escolhas(m - 1, n - 1)}

ListasDeTaxas == {[i \in 1..Len(e) |-> Catalogo[e[i]]] : e \in Escolhas(Len(Catalogo), MaxTaxas)}

Custos  == {4000, 10000, -1000}
Fretes  == {0, 1000}
Margens == {0, 10, 18}

SemResultado == [vazio |-> TRUE]

Init ==
  /\ custo \in Custos
  /\ frete \in Fretes
  /\ margem_desejada \in Margens
  /\ taxas \in ListasDeTaxas
  /\ resultado = SemResultado
  /\ pc = "input"
  /\ milesimos = 0
  /\ condicao = CondMissing
  /\ avaliacao = SemResultado
  /\ produtos = <<>>
  /\ plataformas = <<>>
  /\ resultados = <<>>
  /\ chamadas = <<>>
  /\ taxas_sorted = <<>>
  /\ ArmazenamentoVazio

\* the calculator page loads the platform's fees from the file
RecarregarTaxas ==
  /\ pc = "input"
  /\ \A i \in 1..Len(taxas) : DoFormulario(taxas[i])
  /\ taxas' = [i \in 1..Len(taxas) |-> LerLinha(taxas[i])]
  /\ UNCHANGED <<custo, frete, margem_desejada, resultado, pc>>
  /\ UNCHANGED alheias

\* resultado = calculate_price(custo, frete, taxas, margem_desejada / 100)
Chamada(c, f, tx, m) ==
  calculate_price(FDec(c), FDec(f), tx, FDiv(FFromInt(m), FFromInt(100)))

CalculatePrice ==
  /\ pc = "input"
  /\ resultado' = Chamada(custo, frete, taxas, margem_desejada)
  /\ pc' = "done"
  /\ UNCHANGED <<custo, frete, margem_desejada, taxas>>
  /\ UNCHANGED alheias

Next == RecarregarTaxas \/ CalculatePrice

Spec == Init /\ [][Next]_vars

\* ---------------------------------------------------------------------------
\* The individual calculator on small amounts and on a cost typed with a
\* third decimal
\* ---------------------------------------------------------------------------

\* n thousandths as a double
FMil(n) == IF n < 0 THEN FRatio(TRUE, BFromInt(-n), BFromInt(1000), 0)
           ELSE FRatio(FALSE, BFromInt(n), BFromInt(1000), 0)

CustosPequenos == {0, 1, 10, 12, 4000}
FretesPequenos == {0, 1, 30}
Milesimos      == {0, 4, 5}
MargensPequenas == {0, 10}

ListasPequenas ==
  {<<>>, <<Catalogo[8]>>, <<Catalogo[10], Catalogo[8]>>, <<Catalogo[3]>>, <<Catalogo[6]>>,
   <<Catalogo[2], Catalogo[5]>>}

InitPequeno ==
  /\ custo \in CustosPequenos
  /\ frete \in FretesPequenos
  /\ margem_desejada \in MargensPequenas
  /\ taxas \in ListasPequenas
  /\ milesimos \in Milesimos
  /\ resultado = SemResultado
  /\ pc = "input"
  /\ condicao = CondMissing
  /\ avaliacao = SemResultado
  /\ produtos = <<>>
  /\ plataformas = <<>>
  /\ resultados = <<>>
  /\ chamadas = <<>>
  /\ taxas_sorted = <<>>
  /\ ArmazenamentoVazio

\* resultado = calculate_price(custo_ajustado, frete_ajustado, taxas_dict,
\* margem_desejada / 100) with the cost as typed
CalculatePriceAjustado ==
  /\ pc = "input"
  /\ resultado' = calculate_price(FMil(10 * custo + milesimos), FDec(frete), taxas,
                                  FDiv(FFromInt(margem_desejada), FFromInt(100)))
  /\ pc' = "done"
  /\ UNCHANGED <<custo, frete, margem_desejada, taxas>>
  /\ UNCHANGED alheias

NextPequeno == RecarregarTaxas \/ CalculatePriceAjustado

SpecPequeno == InitPequeno /\ [][NextPequeno]_vars

\* ---------------------------------------------------------------------------
\* The calculator used again and again: one call per click
\* ---------------------------------------------------------------------------

\* most calls in a run
MaxChamadas == 3

CustosRepetidos == {4000, 10000}
ListasRepetidas == {<<>>, <<Catalogo[2], Catalogo[3]>>, <<Catalogo[7]>>}

InitRepetida ==
  /\ custo = 4000
  /\ frete = 0
  /\ margem_desejada = 10
  /\ taxas = <<>>
  /\ milesimos = 0
  /\ resultado = SemResultado
  /\ pc = "input"
  /\ condicao = CondMissing
  /\ avaliacao = SemResultado
  /\ produtos = <<>>
  /\ plataformas = <<>>
  /\ resultados = <<>>
  /\ chamadas = <<>>
  /\ taxas_sorted = <<>>
  /\ ArmazenamentoVazio

\* one more click on "Calcular": new inputs, and the call
ChamarDeNovo ==
  /\ Len(chamadas) < MaxChamadas
  /\ \E c \in CustosRepetidos, tx \in ListasRepetidas :
       /\ custo' = c
       /\ taxas' = tx
       /\ resultado' = Chamada(c, frete, tx, margem_desejada)
       /\ chamadas' = Append(chamadas, [custo |-> c, frete |-> frete, taxas |-> tx,
                                         margem_desejada |-> margem_desejada,
                                         resultado |-> resultado'])
  /\ UNCHANGED <<frete, margem_desejada, pc, milesimos, condicao, avaliacao,
                 produtos, plataformas, resultados, taxas_sorted>>
  /\ UNCHANGED armazenamento

NextRepetida == ChamarDeNovo

SpecRepetida == InitRepetida /\ [][NextRepetida]_vars

\* ---------------------------------------------------------------------------
\* The batch page and the comparison page
\* ---------------------------------------------------------------------------

\* the user's products, [custo, frete] in hundredths
Cadastro == <<[custo |-> 4000, frete |-> 0], [custo |-> 10000, frete |-> 1000],
              [custo |-> 2000, frete |-> 500]>>

\* the multiselect's value: distinct products in the order they were picked
Selecoes ==
  {s \in UNION {[1..n -> 1..Len(Cadastro)] : n \in 1..Len(Cadastro)} :
     \A i, j \in 1..Len(s) : i # j => s[i] # s[j]}

\* a percentage fee charged above a threshold only
TaxaAcimaDe50 ==
  Taxa("percentual", 9500, CondStr(<<Word("preco"), Ws, Op(">"), Ws, Num("50", 5000)>>),
       <<1>>, <<TRUE>>)

\* the fees one platform has in the file
ListasDePlataforma ==
  {<<>>, <<Catalogo[2]>>, <<TaxaAcimaDe50>>, <<Catalogo[4]>>, <<Catalogo[2], TaxaAcimaDe50>>}

\* the platforms of a comparison, each by its fees
Comparadas == UNION {[1..n -> ListasDePlataforma] : n \in 1..2}

\* margem_padrao, margem_comparacao
MargensDePagina == {30, 100}

\* taxas_dict: the platform's rows of the file as a list of dicts
TaxasDict(tx) == [i \in 1..Len(tx) |-> LerLinha(tx[i])]

\* the batch's row for product p, if the result r has no key erro
LinhaDoLote(p, produto_info, r) ==
  IF "erro" \notin DOMAIN r
  THEN <<[Produto |-> p,
          Custo |-> produto_info.custo,
          Frete |-> produto_info.frete,
          PrecoSugerido |-> r.preco_sugerido,
          LucroLiquido |-> r.lucro_liquido,
          MargemReal |-> r.margem_real,
          TotalTaxas |-> r.taxa_total]>>
  ELSE <<>>

\* the loop of calculate_batch_prices from product i on
RECURSIVE LoteDesde(_, _, _, _)
LoteDesde(sel, i, tx, m) ==
  IF i > Len(sel) THEN <<>>
  ELSE LinhaDoLote(sel[i], Cadastro[sel[i]],
                   Chamada(Cadastro[sel[i]].custo, Cadastro[sel[i]].frete, tx, m))
       \o LoteDesde(sel, i + 1, ListaDepois(tx), m)

\* taxas_dict after the calls for the products from i on
RECURSIVE ListaAposLote(_, _, _)
ListaAposLote(sel, i, tx) ==
  IF i > Len(sel) THEN tx ELSE ListaAposLote(sel, i + 1, ListaDepois(tx))

\* the comparison's row for platform i, if the result r has no key erro
LinhaDaComparacao(i, r) ==
  IF "erro" \notin DOMAIN r
  THEN <<[Plataforma |-> i,
          PrecoSugerido |-> r.preco_sugerido,
          LucroLiquido |-> r.lucro_liquido,
          MargemReal |-> r.margem_real,
          TotalTaxas |-> r.taxa_total,
          TaxaFixa |-> r.taxa_fixa,
          TaxaPerc |-> r.taxa_percentual]>>
  ELSE <<>>

\* the loop of compare_platforms from platform i on
RECURSIVE ComparacoesDesde(_, _, _, _)
ComparacoesDesde(pls, i, produto_info, m) ==
  IF i > Len(pls) THEN <<>>
  ELSE LinhaDaComparacao(i, Chamada(produto_info.custo, produto_info.frete,
                                    TaxasDict(pls[i]), m))
       \o ComparacoesDesde(pls, i + 1, produto_info, m)

\* row into rows kept by falling LucroLiquido, after the rows it ties with
InserirPorLucro(rows, row) ==
  LET k == Cardinality({j \in 1..Len(rows) :
                          FCmp(rows[j].LucroLiquido, row.LucroLiquido) >= 0})
  IN  SubSeq(rows, 1, k) \o <<row>> \o SubSeq(rows, k + 1, Len(rows))

\* df_comparacao.sort_values('Lucro Líquido', ascending=False)
RECURSIVE SortPorLucro(_)
SortPorLucro(rows) ==
  IF rows = <<>> THEN <<>>
  ELSE InserirPorLucro(SortPorLucro(SubSeq(rows, 1, Len(rows) - 1)), rows[Len(rows)])

InitPaginas ==
  /\ custo = Cadastro[1].custo
  /\ frete = Cadastro[1].frete
  /\ margem_desejada = 30
  /\ taxas = <<>>
  /\ milesimos = 0
  /\ resultado = SemResultado
  /\ pc = "input"
  /\ condicao = CondMissing
  /\ avaliacao = SemResultado
  /\ produtos = <<>>
  /\ plataformas = <<>>
  /\ resultados = <<>>
  /\ chamadas = <<>>
  /\ taxas_sorted = <<>>
  /\ ArmazenamentoVazio

\* "Calcular Preços em Lote": the selected products, the fees of the platform
\* selected, read once into taxas_dict, and one margin for all of them
CalculateBatchPrices ==
  /\ pc = "input"
  /\ \E sel \in Selecoes, tx \in ListasDePlataforma, m \in MargensDePagina :
       /\ produtos' = sel
       /\ plataformas' = <<tx>>
       /\ taxas' = ListaAposLote(sel, 1, TaxasDict(tx))
       /\ margem_desejada' = m
       /\ resultados' = LoteDesde(sel, 1, TaxasDict(tx), m)
  /\ pc' = "lote"
  /\ UNCHANGED <<custo, frete, resultado, milesimos, condicao, avaliacao, chamadas,
                 taxas_sorted>>
  /\ UNCHANGED armazenamento

\* "Comparar Plataformas": one product under every platform's fees
ComparePlatforms ==
  /\ pc = "input"
  /\ \E p \in 1..Len(Cadastro), pls \in Comparadas, m \in MargensDePagina :
       /\ custo' = Cadastro[p].custo
       /\ frete' = Cadastro[p].frete
       /\ plataformas' = pls
       /\ margem_desejada' = m
       /\ resultados' = SortPorLucro(ComparacoesDesde(pls, 1, Cadastro[p], m))
  /\ pc' = "comparacao"
  /\ UNCHANGED <<taxas, resultado, milesimos, condicao, avaliacao, produtos, chamadas,
                 taxas_sorted>>
  /\ UNCHANGED armazenamento

NextPaginas == CalculateBatchPrices \/ ComparePlatforms

SpecPaginas == InitPaginas /\ [][NextPaginas]_vars

\* ---------------------------------------------------------------------------
\* eval_condition on its own
\* ---------------------------------------------------------------------------

Pr == Word("preco")

\* the conditions eval_condition is given
Condicoes == {
  CondStr(<<Ws, Word("Sempre"), Ws>>),
  CondStr(<<Word("sempre")>>),
  CondStr(<<Word("TRUE")>>),
  CondStr(<<Word("True"), Ws>>),
  CondStr(<<Ws, Num("1", 100), Ws>>),
  CondStr(<<Num("1", 100)>>),
  CondStr(<<Word("NUNCA")>>),
  CondStr(<<Ws, Word("nunca")>>),
  CondStr(<<Word("False")>>),
  CondStr(<<Ws, Word("FALSE"), Ws>>),
  CondStr(<<Ws, Num("0", 0)>>),
  CondStr(<<Num("0", 0)>>),
  CondStr(<<Num("1.0", 100)>>),
  CondStr(<<Num("0.0", 0)>>),
  CondStr(<<>>),
  CondStr(<<Ws>>),
  CondStr(<<Pr, Ws, Op(">"), Ws, Num("50", 5000)>>),
  CondStr(<<Word("PRECO"), Ws, Op(">="), Ws, Num("100", 10000)>>),
  CondStr(<<Word("valor"), Ws, Op("<="), Ws, Num("40", 4000)>>),
  CondStr(<<Lp, Pr, Ws, Op("-"), Ws, Num("10", 1000), Rp, Ws, Op("*"), Ws, Num("2", 200),
            Ws, Op("=="), Ws, Num("60", 6000)>>),
  CondStr(<<Pr, Ws, Op(">")>>),
  CondStr(<<Pr, Ws, Op("/"), Ws, Num("0", 0), Ws, Op(">"), Ws, Num("1", 100)>>),
  CondStr(<<Word("custo"), Ws, Op(">"), Ws, Num("5", 500)>>),
  CondStr(<<Word("abs"), Lp, Pr, Rp, Ws, Op(">"), Ws, Num("50", 5000)>>),
  CondStr(<<Word("abs"), Lp, Pr, Ws, Op("-"), Ws, Num("100", 10000), Rp, Ws, Op("<"), Ws,
            Num("50", 5000)>>),
  CondStr(<<Word("abs"), Lp, Pr>>),
  CondNaN
}

\* preco, in hundredths
Precos == {0, 4000, 10000}

InitCondicao ==
  /\ condicao \in Condicoes
  /\ custo \in Precos
  /\ frete = 0
  /\ margem_desejada = 0
  /\ taxas = <<>>
  /\ milesimos = 0
  /\ resultado = SemResultado
  /\ pc = "input"
  /\ avaliacao = SemResultado
  /\ produtos = <<>>
  /\ plataformas = <<>>
  /\ resultados = <<>>
  /\ chamadas = <<>>
  /\ taxas_sorted = <<>>
  /\ ArmazenamentoVazio

\* eval_condition(condicao, preco)
EvalCondition ==
  /\ pc = "input"
  /\ avaliacao' = eval_condition(condicao, FDec(custo))
  /\ pc' = "avaliada"
  /\ UNCHANGED <<custo, frete, margem_desejada, taxas, resultado, milesimos, condicao,
                 produtos, plataformas, resultados, chamadas, taxas_sorted>>
  /\ UNCHANGED armazenamento

NextCondicao == EvalCondition

SpecCondicao == InitCondicao /\ [][NextCondicao]_vars

\* ---------------------------------------------------------------------------
\* calculate_price on rules with and without a priority
\* ---------------------------------------------------------------------------

SoPrioridade(tipo, valor, prio) == Taxa(tipo, valor, CondMissing, prio, <<TRUE>>)

\* rules that differ in their priority, two of them with the same, two with none
Prioritarias == <<
  SoPrioridade("fixa", 100, <<1000>>),
  SoPrioridade("fixa", 200, <<>>),
  SoPrioridade("percentual", 1000, <<999>>),
  SoPrioridade("fixa", 300, <<2>>),
  SoPrioridade("percentual", 500, <<>>),
  SoPrioridade("fixa", 400, <<2>>)
>>

\* the lists of at most MaxTaxas different rules, in any order
ListasPrioritarias ==
  {[i \in 1..Len(s) |-> Prioritarias[s[i]]] :
     s \in {q \in UNION {[1..n -> 1..Len(Prioritarias)] : n \in 0..MaxTaxas} :
              \A i, j \in 1..Len(q) : i # j => q[i] # q[j]}}

InitPrioridades ==
  /\ custo = 4000
  /\ frete = 0
  /\ margem_desejada \in {0, 10}
  /\ taxas \in ListasPrioritarias
  /\ milesimos = 0
  /\ resultado = SemResultado
  /\ pc = "input"
  /\ condicao = CondMissing
  /\ avaliacao = SemResultado
  /\ produtos = <<>>
  /\ plataformas = <<>>
  /\ resultados = <<>>
  /\ chamadas = <<>>
  /\ taxas_sorted = <<>>
  /\ ArmazenamentoVazio

\* the call, with the order it went through the rules
CalculatePriceEmOrdem ==
  /\ pc = "input"
  /\ taxas_sorted' = SortByPrioridade(taxas)
  /\ resultado' = Chamada(custo, frete, taxas, margem_desejada)
  /\ taxas' = ListaDepois(taxas)
  /\ pc' = "done"
  /\ UNCHANGED <<custo, frete, margem_desejada, milesimos, condicao, avaliacao,
                 produtos, plataformas, resultados, chamadas>>
  /\ UNCHANGED armazenamento

NextPrioridades == CalculatePriceEmOrdem

SpecPrioridades == InitPrioridades /\ [][NextPrioridades]_vars

\* ---------------------------------------------------------------------------
\* The storage: DatabaseManager on the Excel files of one user
\* ---------------------------------------------------------------------------

\* everything of the calculator, which the storage leaves alone
calculadora == <<custo, frete, margem_desejada, taxas, resultado, pc, milesimos, condicao,
                 avaliacao, produtos, plataformas, resultados, chamadas, taxas_sorted>>

CalculadoraParada ==
  /\ custo = 0
  /\ frete = 0
  /\ margem_desejada = 0
  /\ taxas = <<>>
  /\ resultado = SemResultado
  /\ pc = "input"
  /\ milesimos = 0
  /\ condicao = CondMissing
  /\ avaliacao = SemResultado
  /\ produtos = <<>>
  /\ plataformas = <<>>
  /\ resultados = <<>>
  /\ chamadas = <<>>
  /\ taxas_sorted = <<>>

\* most rows a file gets
MaxLinhas == 3

Skus == {"CAM-001", "CAM-002", "CAM-003"}

\* the ids a caller asks for: those a file can hold and one more
IdsPedidos == 1..(MaxLinhas + 1)

\* x in df[col].values
TemValor(df, col, x) == \E i \in 1..Len(df) : df[i][col] = x

\* df[df[col] != x]
SemValor(df, col, x) == SelectSeq(df, LAMBDA r : r[col] # x)

\* data['id'] = len(df) + 1
IdNovo(df) == Len(df) + 1

\* self._cache.pop(key, None)
ClearCache(c, key) == [k \in (DOMAIN c) \ {key} |-> c[k]]

\* self._cache[cache_key] = df
PutCache(c, key, df) == [k \in (DOMAIN c) \cup {key} |-> IF k = key THEN df ELSE c[k]]

Retornou(op, ok) == [op |-> op, ok |-> ok]

\* add_produto(user_hash, produto_data) by a caller on its own
AddProduto ==
  /\ Len(arq_produtos) < MaxLinhas
  /\ \E sku \in Skus :
       IF TemValor(arq_produtos, "sku", sku)
       THEN /\ retorno' = Retornou("add_produto", FALSE)
            /\ UNCHANGED <<arq_produtos, cache>>
       ELSE /\ arq_produtos' = Append(arq_produtos, [id |-> IdNovo(arq_produtos), sku |-> sku])
            /\ cache' = ClearCache(cache, "produtos")
            /\ retorno' = Retornou("add_produto", TRUE)
  /\ UNCHANGED <<arq_plataformas, arq_taxas, arq_precificacoes, lock, sessoes, users_index>>
  /\ UNCHANGED calculadora

\* update_produto(user_hash, produto_id, produto_data) with the SKU of the
\* edit form in produto_data
UpdateProduto ==
  /\ \E produto_id \in IdsPedidos, sku \in Skus :
       IF ~TemValor(arq_produtos, "id", produto_id)
       THEN /\ retorno' = Retornou("update_produto", FALSE)
            /\ UNCHANGED <<arq_produtos, cache>>
       ELSE /\ arq_produtos' = [i \in 1..Len(arq_produtos) |->
                                  IF arq_produtos[i].id = produto_id
                                  THEN [arq_produtos[i] EXCEPT !.sku = sku]
                                  ELSE arq_produtos[i]]
            /\ cache' = ClearCache(cache, "produtos")
            /\ retorno' = Retornou("update_produto", TRUE)
  /\ UNCHANGED <<arq_plataformas, arq_taxas, arq_precificacoes, lock, sessoes, users_index>>
  /\ UNCHANGED calculadora

\* delete_produto(user_hash, produto_id)
DeleteProduto ==
  /\ \E produto_id \in IdsPedidos :
       IF ~TemValor(arq_produtos, "id", produto_id)
       THEN /\ retorno' = Retornou("delete_produto", FALSE)
            /\ UNCHANGED <<arq_produtos, cache>>
       ELSE /\ arq_produtos' = SemValor(arq_produtos, "id", produto_id)
            /\ cache' = ClearCache(cache, "produtos")
            /\ retorno' = Retornou("delete_produto", TRUE)
  /\ UNCHANGED <<arq_plataformas, arq_taxas, arq_precificacoes, lock, sessoes, users_index>>
  /\ UNCHANGED calculadora

InitProdutos == CalculadoraParada /\ ArmazenamentoVazio

NextProdutos == AddProduto \/ UpdateProduto \/ DeleteProduto

SpecProdutos == InitProdutos /\ [][NextProdutos]_vars

\* ---------------------------------------------------------------------------
\* The storage: platforms and their fees
\* ---------------------------------------------------------------------------

Nomes == {"Loja A", "Loja B", "Loja C"}

\* a faulty variant: the fees are left in the file
TaxasTodas(df_taxas, plataforma_id) == df_taxas

\* df_taxas[df_taxas['plataforma_id'] != plataforma_id]
TaxasRestantes(df_taxas, plataforma_id) == SemValor(df_taxas, "plataforma_id", plataforma_id)

\* add_plataforma(user_hash, plataforma_data)
AddPlataforma ==
  /\ Len(arq_plataformas) < MaxLinhas
  /\ \E nome \in Nomes :
       IF TemValor(arq_plataformas, "nome", nome)
       THEN /\ retorno' = Retornou("add_plataforma", FALSE)
            /\ UNCHANGED <<arq_plataformas, cache>>
       ELSE /\ arq_plataformas' =
                 Append(arq_plataformas, [id |-> IdNovo(arq_plataformas), nome |-> nome])
            /\ cache' = ClearCache(cache, "plataformas")
            /\ retorno' = Retornou("add_plataforma", TRUE)
  /\ UNCHANGED <<arq_produtos, arq_taxas, arq_precificacoes, lock, sessoes, users_index>>
  /\ UNCHANGED calculadora

\* add_taxa(user_hash, taxa_data) from the form of a stored platform
AddTaxa ==
  /\ Len(arq_taxas) < MaxLinhas
  /\ \E plataforma_id \in IdsPedidos :
       /\ TemValor(arq_plataformas, "id", plataforma_id)
       /\ arq_taxas' = Append(arq_taxas, [id |-> IdNovo(arq_taxas),
                                          plataforma_id |-> plataforma_id])
  /\ retorno' = Retornou("add_taxa", TRUE)
  /\ UNCHANGED <<arq_produtos, arq_plataformas, arq_precificacoes, cache, lock, sessoes,
                 users_index>>
  /\ UNCHANGED calculadora

\* delete_plataforma(user_hash, plataforma_id)
DeletePlataforma ==
  /\ \E plataforma_id \in IdsPedidos :
       IF ~TemValor(arq_plataformas, "id", plataforma_id)
       THEN /\ retorno' = Retornou("delete_plataforma", FALSE)
            /\ UNCHANGED <<arq_plataformas, arq_taxas, cache>>
       ELSE /\ arq_plataformas' = SemValor(arq_plataformas, "id", plataforma_id)
            /\ arq_taxas' = TaxasRestantes(arq_taxas, plataforma_id)
            /\ cache' = ClearCache(cache, "plataformas")
            /\ retorno' = Retornou("delete_plataforma", TRUE)
  /\ UNCHANGED <<arq_produtos, arq_precificacoes, lock, sessoes, users_index>>
  /\ UNCHANGED calculadora

InitPlataformas == CalculadoraParada /\ ArmazenamentoVazio

NextPlataformas == AddPlataforma \/ AddTaxa \/ DeletePlataforma

SpecPlataformas == InitPlataformas /\ [][NextPlataformas]_vars

\* ---------------------------------------------------------------------------
\* The storage: reads through the cache of one DatabaseManager
\* ---------------------------------------------------------------------------

\* the products a pricing is saved for
ProdutosPrecificados == {1, 2}

Leu(op, df) == [op |-> op, ok |-> TRUE, df |-> df]

\* get_produtos(user_hash): the cached table if there is one, else the file,
\* which is cached (produtos.xlsx exists from the registration on)
GetProdutos ==
  /\ IF "produtos" \in DOMAIN cache
     THEN /\ retorno' = Leu("get_produtos", cache["produtos"])
          /\ UNCHANGED cache
     ELSE /\ cache' = PutCache(cache, "produtos", arq_produtos)
          /\ retorno' = Leu("get_produtos", arq_produtos)
  /\ UNCHANGED <<arq_produtos, arq_plataformas, arq_taxas, arq_precificacoes, lock, sessoes,
                 users_index>>
  /\ UNCHANGED calculadora

\* save_precificacao(user_hash, data): precificacoes.xlsx is read or started,
\* the record appended and the file written
SavePrecificacao ==
  /\ Len(arq_precificacoes) < MaxLinhas
  /\ \E p \in ProdutosPrecificados :
       arq_precificacoes' =
         Append(arq_precificacoes, [id |-> IdNovo(arq_precificacoes), produto |-> p])
  /\ retorno' = Retornou("save_precificacao", TRUE)
  /\ UNCHANGED <<arq_produtos, arq_plataformas, arq_taxas, cache, lock, sessoes, users_index>>
  /\ UNCHANGED calculadora

\* get_precificacoes(user_hash): the cached table if there is one, else the
\* file if it exists, which is cached, else an empty table
GetPrecificacoes ==
  /\ IF "precificacoes" \in DOMAIN cache
     THEN /\ retorno' = Leu("get_precificacoes", cache["precificacoes"])
          /\ UNCHANGED cache
     ELSE IF arq_precificacoes # <<>>
     THEN /\ cache' = PutCache(cache, "precificacoes", arq_precificacoes)
          /\ retorno' = Leu("get_precificacoes", arq_precificacoes)
     ELSE /\ retorno' = Leu("get_precificacoes", <<>>)
          /\ UNCHANGED cache
  /\ UNCHANGED <<arq_produtos, arq_plataformas, arq_taxas, arq_precificacoes, lock, sessoes,
                 users_index>>
  /\ UNCHANGED calculadora

InitCache == CalculadoraParada /\ ArmazenamentoVazio

NextCache ==
  \/ AddProduto \/ DeleteProduto \/ GetProdutos
  \/ SavePrecificacao \/ GetPrecificacoes

SpecCache == InitCache /\ [][NextCache]_vars

\* ---------------------------------------------------------------------------
\* The storage: two callers adding products for one user at the same time
\* ---------------------------------------------------------------------------

\* the callers: two page runs of one user, each in its own thread
Chamadores == {1, 2}

\* every page run builds the DatabaseManager it works with, so the manager
\* (and with it the lock) of a caller is the caller's own
Gestor(c) == c

Livre == 0

Fora == [pc |-> "fora", sku |-> "", df |-> <<>>, ok |-> FALSE]

\* produtos.xlsx as the callers find it
ArquivosIniciais == {<<>>, <<[id |-> 1, sku |-> "CAM-003"]>>}

InitConcorrente ==
  /\ CalculadoraParada
  /\ arq_produtos \in ArquivosIniciais
  /\ arq_plataformas = <<>>
  /\ arq_taxas = <<>>
  /\ arq_precificacoes = <<>>
  /\ cache = <<>>
  /\ lock = [g \in Chamadores |-> Livre]
  /\ sessoes = [c \in Chamadores |-> Fora]
  /\ users_index = <<>>
  /\ retorno = SemRetorno

\* add_produto, "with self.lock": the caller enters when the lock of its
\* manager is free
Adquirir(c) ==
  /\ sessoes[c].pc = "fora"
  /\ lock[Gestor(c)] = Livre
  /\ \E sku \in Skus :
       sessoes' = [sessoes EXCEPT ![c] = [pc |-> "lock", sku |-> sku, df |-> <<>>, ok |-> FALSE]]
  /\ lock' = [lock EXCEPT ![Gestor(c)] = c]
  /\ UNCHANGED <<arq_produtos, arq_plataformas, arq_taxas, arq_precificacoes, cache,
                 users_index, retorno>>
  /\ UNCHANGED calculadora

\* add_produto, pd.read_excel(file_path): the caller's copy of the table
LerArquivo(c) ==
  /\ sessoes[c].pc = "lock"
  /\ sessoes' = [sessoes EXCEPT ![c].pc = "lido", ![c].df = arq_produtos]
  /\ UNCHANGED <<arq_produtos, arq_plataformas, arq_taxas, arq_precificacoes, cache, lock,
                 users_index, retorno>>
  /\ UNCHANGED calculadora

\* add_produto, from the SKU check to the return: the copy with the new row
\* replaces the file, the lock is released on the way out
GravarArquivo(c) ==
  /\ sessoes[c].pc = "lido"
  /\ IF TemValor(sessoes[c].df, "sku", sessoes[c].sku)
     THEN /\ sessoes' = [sessoes EXCEPT ![c].pc = "fim", ![c].ok = FALSE]
          /\ retorno' = Retornou("add_produto", FALSE)
          /\ UNCHANGED <<arq_produtos, cache>>
     ELSE /\ arq_produtos' = Append(sessoes[c].df,
                                    [id |-> IdNovo(sessoes[c].df), sku |-> sessoes[c].sku])
          /\ cache' = ClearCache(cache, "produtos")
          /\ sessoes' = [sessoes EXCEPT ![c].pc = "fim", ![c].ok = TRUE]
          /\ retorno' = Retornou("add_produto", TRUE)
  /\ lock' = [lock EXCEPT ![Gestor(c)] = Livre]
  /\ UNCHANGED <<arq_plataformas, arq_taxas, arq_precificacoes, users_index>>
  /\ UNCHANGED calculadora

NextConcorrente ==
  \/ \E c \in Chamadores : Adquirir(c)
  \/ \E c \in Chamadores : LerArquivo(c)
  \/ \E c \in Chamadores : GravarArquivo(c)

SpecConcorrente == InitConcorrente /\ [][NextConcorrente]_vars

\* ---------------------------------------------------------------------------
\* The registration of users
\* ---------------------------------------------------------------------------

\* what is typed into the registration form
Emails == {"joao@loja.co", "joao@loja.com", "ana@loja.com"}

Senhas == {"abc", "abc123", "mabc123", "segredo1"}

MinSenha == 6

\* hashlib.sha256(texto.encode()).hexdigest(): the digest as a term over the
\* hashed text, equal digests for equal texts only
Sha256(texto) == <<"sha256", texto>>

\* _hash_password(password)
HashPassword(password) == Sha256(password)

\* _generate_user_folder_hash(email, password): f"{email}{password}" hashed
GenerateUserFolderHash(email, password) == Sha256(email \o password)

\* the form's check of the password, then register(email, password, name):
\* refused for an email of the index, else the user gets its row
Register ==
  /\ \E email \in Emails, password \in Senhas :
       IF Len(password) < MinSenha
       THEN /\ retorno' = Retornou("register_form", FALSE)
            /\ UNCHANGED users_index
       ELSE IF TemValor(users_index, "email", email)
       THEN /\ retorno' = Retornou("register", FALSE)
            /\ UNCHANGED users_index
       ELSE /\ users_index' = Append(users_index,
                                     [email |-> email,
                                      password_hash |-> HashPassword(password),
                                      user_folder_hash |-> GenerateUserFolderHash(email, password)])
            /\ retorno' = Retornou("register", TRUE)
  /\ UNCHANGED <<arq_produtos, arq_plataformas, arq_taxas, arq_precificacoes, cache, lock,
                 sessoes>>
  /\ UNCHANGED calculadora

InitRegistro == CalculadoraParada /\ ArmazenamentoVazio

NextRegistro == Register

SpecRegistro == InitRegistro /\ [][NextRegistro]_vars

\* ---------------------------------------------------------------------------
\* Properties: vocabulary
\* ---------------------------------------------------------------------------

Feita == pc = "done"

TemErro(r) == "erro" \in DOMAIN r

\* custo_total as the call computes it
CustoTotal == FAdd(FDec(custo), FDec(frete))

\* a double that is a whole number of hundredths, as that number
Centavos(x) == IF x.neg THEN 0 - BToInt(CentsOf(x)) ELSE BToInt(CentsOf(x))

\* the list without its i-th rule
Remover(tx, i) == SubSeq(tx, 1, i - 1) \o SubSeq(tx, i + 1, Len(tx))

\* the exact sum, in hundredths, of the amounts of the rules of one kind that
\* the loop applies
RECURSIVE SomaAplicadas(_, _, _)
SomaAplicadas(tx, tipo, ct) ==
  IF tx = <<>> THEN 0
  ELSE (IF tx[1].tipo_taxa = tipo /\ Aplica(tx[1], ct) THEN tx[1].valor ELSE 0)
       + SomaAplicadas(Tail(tx), tipo, ct)

FixaExata == SomaAplicadas(taxas, "fixa", CustoTotal)
PercExata == SomaAplicadas(taxas, "percentual", CustoTotal)

\* 1 - margin - percentage fees in exact arithmetic, in ten-thousandths
DenExato == 10000 - 100 * margem_desejada - PercExata

\* custo + frete + fixed fees in exact arithmetic, in hundredths
NumExato == custo + frete + FixaExata

Abs(n) == IF n < 0 THEN 0 - n ELSE n

\* ---------------------------------------------------------------------------
\* Properties
\* ---------------------------------------------------------------------------

\* C1: whenever 1 - margin - percentage fee total is > 0 (in exact arithmetic),
\* the call returns a price and no error, and the price returned is
\* (cost + shipping + fixed fee total) / denominator rounded to the nearest
\* hundredth: it lies within half a hundredth of the exact quotient.
C1_PrecoPelaFormula ==
  Feita /\ DenExato > 0 =>
    /\ ~TemErro(resultado)
    /\ 2 * Abs(Centavos(resultado.preco_sugerido) * DenExato - NumExato * 10000) <= DenExato

\* C1 witness: cost 100.00, margin 10 %, one 20 % fee: the price is 142.86
C1_Witness ==
  /\ Feita /\ custo = 10000 /\ frete = 0 /\ margem_desejada = 10
  /\ PercExata = 2000 /\ FixaExata = 0
  /\ ~TemErro(resultado)
  /\ Centavos(resultado.preco_sugerido) = 14286

\* the infeasible result: a reason, and price, fee amount and profit all 0
Inviavel(r) ==
  /\ TemErro(r)
  /\ r.preco_sugerido = FZero /\ r.taxa_total = FZero /\ r.lucro_liquido = FZero

\* C2: whenever margin + percentage fee total >= 1 (exact equality included)
\* the call returns the infeasible result; whenever it is < 1 the result has no
\* error key.
C2_InviavelSeSomaAtingeCem ==
  Feita => IF DenExato <= 0 THEN Inviavel(resultado) ELSE ~TemErro(resultado)

\* the condition is a text that is no literal and that eval cannot evaluate
NaoAvaliavel(t) ==
  /\ t.condicao.kind = "str"
  /\ t.condicao.text # <<>>
  /\ Strip(Lower(t.condicao.text)) \notin LiteralTrue \cup LiteralFalse
  /\ ~PyEval(Replace(Replace(Strip(Lower(t.condicao.text)), "preco"), "valor"), CustoTotal).ok

\* C3: an active rule whose condition text cannot be parsed or evaluated is
\* skipped: the result equals that of the same request without the rule.
C3_CondicaoComErroIgnorada ==
  Feita =>
    \A i \in 1..Len(taxas) :
      Ativa(taxas[i]) /\ NaoAvaliavel(taxas[i]) =>
        resultado = Chamada(custo, frete, Remover(taxas, i), margem_desejada)

\* no condition: the key missing, None, the empty string, or the empty cell
\* read back from the file
CondicaoAusente(t) ==
  \/ t.condicao.kind \in {"missing", "none", "nan"}
  \/ t.condicao.kind = "str" /\ t.condicao.text = <<>>

Sempre == CondStr(<<Word("sempre")>>)

\* C4: an active rule without a condition is applied for every total cost: the
\* result equals that of the request in which the rule's condition is "sempre".
C4_SemCondicaoSempreAplica ==
  Feita =>
    \A i \in 1..Len(taxas) :
      Ativa(taxas[i]) /\ CondicaoAusente(taxas[i]) =>
        resultado = Chamada(custo, frete, [taxas EXCEPT ![i].condicao = Sempre],
                            margem_desejada)

\* the condition reads "preco > n"
EhLimiar(t) ==
  /\ t.condicao.kind = "str"
  /\ Len(t.condicao.text) = 5
  /\ t.condicao.text[1] = Word("preco")
  /\ t.condicao.text[3] = Op(">")
  /\ t.condicao.text[5].t = "num"

\* the fixed amounts due when each "preco > n" is read as custo + frete > n
RECURSIVE FixaPorLimiar(_)
FixaPorLimiar(tx) ==
  IF tx = <<>> THEN 0
  ELSE (IF /\ tx[1].tipo_taxa = "fixa" /\ Ativa(tx[1]) /\ EhLimiar(tx[1])
           /\ custo + frete > tx[1].condicao.text[5].v
        THEN tx[1].valor ELSE 0)
       + FixaPorLimiar(Tail(tx))

\* C5: conditions are evaluated with preco bound to custo + frete, never to the
\* solved price: where every active fixed rule carries a condition "preco > n",
\* the fixed fee total is the sum of those with custo + frete > n; and a fixed
\* fee of 5 on cost 40, shipping 0, margin 0 gives 40.00 under "preco > 50" and
\* 45.00 under "preco > 30".
C5_CondicaoSobreCustoTotal ==
  Feita /\ ~TemErro(resultado) =>
    /\ (\A i \in 1..Len(taxas) :
          taxas[i].tipo_taxa = "fixa" /\ Ativa(taxas[i]) => EhLimiar(taxas[i]))
       => Centavos(resultado.taxa_fixa) = FixaPorLimiar(taxas)
    /\ custo = 4000 /\ frete = 0 /\ margem_desejada = 0 /\ taxas = <<Catalogo[1]>>
       => Centavos(resultado.preco_sugerido) = 4000
    /\ custo = 4000 /\ frete = 0 /\ margem_desejada = 0 /\ taxas = <<Catalogo[2]>>
       => Centavos(resultado.preco_sugerido) = 4500

\* C5 witness: the rule "preco > 50" is skipped on cost 40.00 although the
\* price solved for is above 50.00
C5_Witness ==
  /\ Feita /\ custo = 4000 /\ frete = 0 /\ DenExato > 0
  /\ \E i \in 1..Len(taxas) : taxas[i] = Catalogo[1]
  /\ ~TemErro(resultado)
  /\ Centavos(resultado.taxa_fixa) = 0
  /\ Centavos(resultado.preco_sugerido) > 5000

\* the record carries ativa = False
Inativa(t) == t.ativa = <<FALSE>>

\* C6: a rule with ativa = False contributes nothing: the result is that of the
\* request with the rule removed.
C6_InativaNaoContribui ==
  Feita =>
    \A i \in 1..Len(taxas) :
      Inativa(taxas[i]) =>
        resultado = Chamada(custo, frete, Remover(taxas, i), margem_desejada)

\* C6 witness: a call that returned a price for a list holding an inactive rule
\* next to a rule that was applied
C6_Witness ==
  /\ Feita /\ ~TemErro(resultado)
  /\ \E i \in 1..Len(taxas) : Inativa(taxas[i])
  /\ FixaExata + PercExata > 0

\* the text evaluates, and to a true value
Verdadeiro(r) == r.ok /\ r.val.man # <<>>

\* the rule's condition holds as the condition language defines it: no
\* condition, a true literal, or a comparison that evaluates to true
Satisfeita(t) ==
  \/ CondicaoAusente(t)
  \/ /\ t.condicao.kind = "str"
     /\ Strip(Lower(t.condicao.text)) \notin LiteralFalse
     /\ \/ Strip(Lower(t.condicao.text)) \in LiteralTrue
        \/ Verdadeiro(PyEval(Replace(Replace(Strip(Lower(t.condicao.text)),
                                             "preco"), "valor"), CustoTotal))

\* the exact sum of the amounts of the active, condition-satisfied rules of a kind
RECURSIVE SomaDevida(_, _)
SomaDevida(tx, tipo) ==
  IF tx = <<>> THEN 0
  ELSE (IF tx[1].tipo_taxa = tipo /\ Ativa(tx[1]) /\ Satisfeita(tx[1])
        THEN tx[1].valor ELSE 0)
       + SomaDevida(Tail(tx), tipo)

\* C7: the fixed fee total reported is the sum of the amounts of the active,
\* condition-satisfied fixed rules, and the percentage total reported is the
\* sum of the percentage points of the active, condition-satisfied percentage
\* rules; nothing else contributes.
C7_TotaisSomamAsRegrasDevidas ==
  Feita /\ ~TemErro(resultado) =>
    /\ Centavos(resultado.taxa_fixa) = SomaDevida(taxas, "fixa")
    /\ Centavos(resultado.taxa_percentual) = SomaDevida(taxas, "percentual")

\* C8: a request with a negative cost or shipping is refused: no price comes back.
C8_PedidoInvalidoRecusado ==
  Feita /\ (custo < 0 \/ frete < 0) => "preco_sugerido" \notin DOMAIN resultado

\* the amounts by which a rule's amount is raised, in hundredths
Aumentos == {2000}

Maior(tx, i, d) == [tx EXCEPT ![i].valor = @ + d]

PrecoComAumento(i, d) ==
  Chamada(custo, frete, Maior(taxas, i, d), margem_desejada).preco_sugerido

\* C9 as stated, on requests with non-negative cost and shipping: raising the
\* amount of one active rule never lowers the price, whatever the feasibility
\* of either request.
C9_MonotoniaSempre ==
  Feita /\ custo >= 0 /\ frete >= 0 =>
    \A i \in 1..Len(taxas) : \A d \in Aumentos :
      Ativa(taxas[i]) => FCmp(PrecoComAumento(i, d), resultado.preco_sugerido) >= 0

SegundoViavel(i, d) ==
  ~TemErro(Chamada(custo, frete, Maior(taxas, i, d), margem_desejada))

\* C9 amended: for a request with non-negative cost and shipping, raising the
\* amount of one active rule never lowers the price, provided the call with
\* the raised amount still returns a price (no error key).
C9_MonotoniaSeViavel ==
  Feita /\ custo >= 0 /\ frete >= 0 =>
    \A i \in 1..Len(taxas) : \A d \in Aumentos :
      Ativa(taxas[i]) /\ SegundoViavel(i, d) =>
        FCmp(PrecoComAumento(i, d), resultado.preco_sugerido) >= 0

\* C9 witness: raising an applied percentage rule gives a strictly higher price
C9_Witness ==
  /\ Feita /\ custo >= 0 /\ ~TemErro(resultado)
  /\ \E i \in 1..Len(taxas) : \E d \in Aumentos :
       /\ taxas[i].tipo_taxa = "percentual" /\ Aplica(taxas[i], CustoTotal)
       /\ SegundoViavel(i, d)
       /\ FCmp(PrecoComAumento(i, d), resultado.preco_sugerido) > 0

Permutacoes(n) == {p \in [1..n -> 1..n] : \A i, j \in 1..n : p[i] = p[j] => i = j}

SemPrioridade(t) == [t EXCEPT !.prioridade = <<>>]

\* C10: the result depends neither on the order of the list nor on the
\* priorities: the same rules in any order, all with the default priority,
\* give the same result.
C10_OrdemNaoImporta ==
  Feita =>
    \A p \in Permutacoes(Len(taxas)) :
      Chamada(custo, frete, [i \in 1..Len(taxas) |-> SemPrioridade(taxas[p[i]])],
              margem_desejada) = resultado

\* no rule of the list is active
SemTaxaAtiva == \A i \in 1..Len(taxas) : Inativa(taxas[i])

\* C11 as stated: with no active rule and margin 0 the price returned is
\* cost + shipping exactly, for every non-negative cost and shipping.
C11_IdentidadeExata ==
  Feita /\ margem_desejada = 0 /\ SemTaxaAtiva /\ custo >= 0 /\ frete >= 0 =>
    /\ ~TemErro(resultado)
    /\ resultado.preco_sugerido = FMil(10 * custo + milesimos + 10 * frete)

\* C11 amended: with no active rule and margin 0 the price returned is
\* cost + shipping rounded to two decimals (within half a hundredth of the
\* sum), and is cost + shipping exactly when both are whole hundredths.
C11_IdentidadeArredondada ==
  Feita /\ margem_desejada = 0 /\ SemTaxaAtiva /\ custo >= 0 /\ frete >= 0 =>
    /\ ~TemErro(resultado)
    /\ Abs(10 * Centavos(resultado.preco_sugerido) - (10 * custo + milesimos + 10 * frete)) <= 5
    /\ milesimos = 0 => Centavos(resultado.preco_sugerido) = custo + frete

\* C11 witness: cost 0.125 and shipping 0.30 without fees and margin: 0.42
C11_Witness ==
  /\ Feita /\ margem_desejada = 0 /\ SemTaxaAtiva /\ taxas # <<>>
  /\ custo = 12 /\ milesimos = 5 /\ frete = 30
  /\ Centavos(resultado.preco_sugerido) = 42

\* the reported fields of a feasible result, in hundredths; the percentage
\* total in whole points
RPreco  == Centavos(resultado.preco_sugerido)
RCusto  == Centavos(resultado.custo_total)
RTaxa   == Centavos(resultado.taxa_total)
RFixa   == Centavos(resultado.taxa_fixa)
RLucro  == Centavos(resultado.lucro_liquido)
RPontos == Centavos(resultado.taxa_percentual) \div 100

\* a result for a request whose exact denominator is positive, with the
\* percentage total a whole number of points
ViavelExato ==
  /\ Feita /\ DenExato > 0 /\ ~TemErro(resultado)
  /\ Centavos(resultado.taxa_percentual) % 100 = 0

\* C12 as stated: the reported fields satisfy taxa_total = taxa_fixa +
\* preco_sugerido * taxa_percentual / 100 and lucro_liquido = preco_sugerido -
\* custo_total - taxa_total.
C12_CamposExatos ==
  ViavelExato =>
    /\ 100 * RTaxa = 100 * RFixa + RPreco * RPontos
    /\ RLucro = RPreco - RCusto - RTaxa

\* C12 amended: each field is rounded on its own from the unrounded values, so
\* the reported fields satisfy both equations to within one hundredth.
C12_CamposAUmCentavo ==
  ViavelExato =>
    /\ Abs(100 * RTaxa - (100 * RFixa + RPreco * RPontos)) <= 100
    /\ Abs(RLucro - (RPreco - RCusto - RTaxa)) <= 1

\* C12 witness: fixed and percentage fees applied, and the fee amount reported
\* is not the one recomputed from the rounded price
C12_Witness ==
  /\ ViavelExato /\ RFixa > 0 /\ RPontos > 0
  /\ 100 * RTaxa # 100 * RFixa + RPreco * RPontos

\* C13: every result, feasible or infeasible, carries margem_real, and
\* margem_real is 0 whenever the price is not positive.
C13_MargemRealSemprePresente ==
  Feita =>
    /\ "margem_real" \in DOMAIN resultado
    /\ ~FGtZero(resultado.preco_sugerido) => resultado.margem_real = FZero

MesmosArgumentos(a, b) ==
  /\ a.custo = b.custo /\ a.frete = b.frete
  /\ a.taxas = b.taxas /\ a.margem_desejada = b.margem_desejada

C15_UmResultadoPorProduto ==
  pc = "lote" =>
    /\ Len(resultados) = Len(produtos)
    /\ \A i \in 1..Len(produtos) :
         i <= Len(resultados) =>
           LET r == Chamada(Cadastro[produtos[i]].custo, Cadastro[produtos[i]].frete,
                            taxas, margem_desejada)
           IN  /\ resultados[i].Produto = produtos[i]
               /\ resultados[i].PrecoSugerido = r.preco_sugerido
               /\ resultados[i].LucroLiquido = r.lucro_liquido
               /\ resultados[i].TotalTaxas = r.taxa_total

\* C16: the comparison returns one row for each platform it is given, feasible
\* or not.
C16_UmResultadoPorPlataforma ==
  pc = "comparacao" =>
    /\ Len(resultados) = Len(plataformas)
    /\ \A i \in 1..Len(plataformas) :
         \E j \in 1..Len(resultados) : resultados[j].Plataforma = i

\* the lexemes of a text that are no white space
SemEspacos(tx) == SelectSeq(tx, LAMBDA l : l.t # "ws")

\* the text is one literal of the given spellings between optional white space
EhLiteral(c, palavras, numero) ==
  /\ c.kind = "str"
  /\ Len(SemEspacos(c.text)) = 1
  /\ \/ SemEspacos(c.text)[1].t = "word" /\ SemEspacos(c.text)[1].s \in palavras
     \/ SemEspacos(c.text)[1].t = "num" /\ SemEspacos(c.text)[1].s = numero

Avaliada == pc = "avaliada"

\* C17: after trimming and lower-casing, sempre, true and 1 evaluate to true
\* and nunca, false and 0 to false, whatever the cost.
C17_LiteraisCanonicos ==
  Avaliada =>
    /\ EhLiteral(condicao, {"sempre", "Sempre", "SEMPRE", "true", "True", "TRUE"}, "1")
         => avaliacao = [raised |-> FALSE, truthy |-> TRUE]
    /\ EhLiteral(condicao, {"nunca", "NUNCA", "false", "False", "FALSE"}, "0")
         => avaliacao = [raised |-> FALSE, truthy |-> FALSE]

C17_Witness ==
  /\ Avaliada
  /\ condicao = CondStr(<<Ws, Word("FALSE"), Ws>>)
  /\ custo = 10000
  /\ ~avaliacao.truthy

\* the text holds a call: a name directly followed by a parenthesis
ContemChamada(c) ==
  /\ c.kind = "str"
  /\ \E i \in 1..(Len(SemEspacos(c.text)) - 1) :
       /\ SemEspacos(c.text)[i].t = "word"
       /\ SemEspacos(c.text)[i + 1].t = "lp"

\* what eval_condition answers for a text that cannot be evaluated
RespostaDeErro == eval_condition(CondStr(<<Word("preco"), Ws, Op(">")>>), FDec(custo))

\* C19: a condition holding a function call is not executed: it is answered
\* like any text that cannot be evaluated.
C19_ChamadaNuncaExecutada ==
  Avaliada /\ ContemChamada(condicao) => avaliacao = RespostaDeErro

\* the call returned a dict
Devolveu(r) == "preco_sugerido" \in DOMAIN r

\* C18: whatever the rules' conditions are, calculate_price returns a result:
\* no failure of a condition leaves it as an exception.
C18_CondicaoNuncaPropaga ==
  Feita => Devolveu(resultado)

C18_Witness ==
  /\ Feita
  /\ Devolveu(resultado)
  /\ \E i \in 1..Len(taxas) : taxas[i].ativa = <<TRUE>> /\ taxas[i].condicao.kind = "nan"
  /\ \E i \in 1..Len(taxas) :
       /\ taxas[i].ativa = <<TRUE>>
       /\ taxas[i].condicao = CondStr(<<Word("preco"), Ws, Op(">")>>)

\* the reported margin, in hundredths of a point
RMargem == Centavos(resultado.margem_real)

\* cost + shipping of the request, in thousandths
CustoMil == 10 * custo + milesimos + 10 * frete

\* 10 * q times the margin, in hundredths of a point, recomputed at the price
\* of q hundredths: fee amount = taxa_fixa + q * taxa_percentual / 100, net
\* profit = q - (custo + frete) - fee amount, margin = net profit / q * 100
MargemVezes(q) ==
  10000 * (10 * q - CustoMil - 10 * RFixa) - 10 * Centavos(resultado.taxa_percentual) * q

\* a feasible result with a price to divide by
ViavelComPreco ==
  Feita /\ ~TemErro(resultado) /\ RPreco > 0 /\ custo >= 0 /\ frete >= 0

\* C20 as stated: the margin recomputed from the rounded price is within 0.01
\* of the reported margem_real, for every feasible request (here: those with
\* cost and shipping in whole hundredths).
C20_MargemRefeita ==
  ViavelComPreco /\ milesimos = 0 =>
    Abs(MargemVezes(RPreco) - 10 * RMargem * RPreco) <= 10 * RPreco

\* C20 amended: the reported margem_real is, to 0.01, between the margins
\* recomputed one hundredth below and one hundredth above the rounded price.
C20_MargemRefeitaAUmCentavoDoPreco ==
  ViavelComPreco =>
    /\ 10 * (RMargem - 1) * (RPreco + 1) <= MargemVezes(RPreco + 1)
    /\ RPreco > 1 => 10 * (RMargem + 1) * (RPreco - 1) >= MargemVezes(RPreco - 1)

\* C20 witness: fixed and percentage fees applied, and the margin recomputed
\* from the rounded price is not the reported one
C20_Witness ==
  /\ ViavelComPreco
  /\ RFixa > 0
  /\ Centavos(resultado.taxa_percentual) > 0
  /\ MargemVezes(RPreco) # 10 * RMargem * RPreco

\* |x| * 100 rounded to an integer with every tie going up
CentsMeioAcima(x) ==
  IF x.man = <<>> THEN <<>>
  ELSE IF x.exp >= 0 THEN BShl(BMulSmall(x.man, 100), x.exp)
  ELSE IF BBit(BMulSmall(x.man, 100), (-x.exp) - 1) = 1
  THEN BAdd(BShr(BMulSmall(x.man, 100), -x.exp), <<1>>)
  ELSE BShr(BMulSmall(x.man, 100), -x.exp)

\* x rounded half-up to two places
MeioAcima2(x) == FRatio(x.neg, CentsMeioAcima(x), BFromInt(100), 0)

\* the unrounded custo_total and price of the request as typed
CustoTotalAjustado == FAdd(FMil(10 * custo + milesimos), FDec(frete))
TotaisDoPedido == Acumular(SortByPrioridade(taxas), 1, CustoTotalAjustado, SemTaxas)
PrecoCru ==
  PrecoSugerido(CustoTotalAjustado, TotaisDoPedido.fixa,
                Denominador(FDiv(FFromInt(margem_desejada), FFromInt(100)),
                            TotaisDoPedido.perc))

\* C21: the price and the total cost returned are the unrounded values rounded
\* half-up to two places.
C21_ArredondaMeioParaCima ==
  Feita /\ ~TemErro(resultado) /\ custo >= 0 /\ frete >= 0 /\ milesimos = 0 =>
    /\ resultado.preco_sugerido = MeioAcima2(PrecoCru)
    /\ resultado.custo_total = MeioAcima2(CustoTotalAjustado)

\* where a rule stands in the list the caller gave
Posicao(t) == CHOOSE k \in 1..Len(taxas) : taxas[k] = t

\* the rules went through in ascending priority, ties in the caller's order
OrdemCrescente ==
  /\ Len(taxas_sorted) = Len(taxas)
  /\ \A k \in 1..Len(taxas) : \E i \in 1..Len(taxas_sorted) : taxas_sorted[i] = taxas[k]
  /\ \A i, j \in 1..Len(taxas_sorted) :
       i < j =>
         LET a == taxas_sorted[i]
             b == taxas_sorted[j]
         IN  /\ a.prioridade # <<>> /\ b.prioridade # <<>> => a.prioridade[1] <= b.prioridade[1]
             /\ a.prioridade = b.prioridade => Posicao(a) < Posicao(b)

\* no rule without a priority went before a rule that has one
SemPrioridadePorUltimo ==
  \A i, j \in 1..Len(taxas_sorted) :
    i < j => ~(taxas_sorted[i].prioridade = <<>> /\ taxas_sorted[j].prioridade # <<>>)

\* C22: the rules are processed in ascending priority, ties in input order,
\* and every rule without a priority after all rules that have one.
C22_SemPrioridadeDepoisDeTodas ==
  Feita => OrdemCrescente /\ SemPrioridadePorUltimo

C24_MargemRealIgualDesejada ==
  Feita /\ ~TemErro(resultado) /\ RPreco > 0 =>
    /\ RMargem = 100 * margem_desejada
    /\ Abs(100 * RLucro - margem_desejada * RPreco) <= 100

\* C24 witness: fixed and percentage fees applied and a margin of 18 %
C24_Witness ==
  /\ Feita /\ ~TemErro(resultado) /\ RPreco > 0
  /\ RFixa > 0
  /\ Centavos(resultado.taxa_percentual) > 0
  /\ margem_desejada = 18
  /\ RMargem = 1800

\* no two rows of the table have the same value in the column
SemRepetir(df, col) == \A i, j \in 1..Len(df) : i # j => df[i][col] # df[j][col]

\* C27: after any sequence of add_produto and delete_produto calls no two
\* stored products have the same id.
C27_IdsUnicos ==
  SemRepetir(arq_produtos, "id")

\* C28: after any sequence of add, update and delete calls no two stored
\* products share a SKU (here: among products whose ids are all different).
C28_SkusUnicos ==
  SemRepetir(arq_produtos, "id") => SemRepetir(arq_produtos, "sku")

C29_LeituraRefleteAEscrita ==
  /\ retorno.op = "get_produtos" => retorno.df = arq_produtos
  /\ retorno.op = "get_precificacoes" => retorno.df = arq_precificacoes

\* C26: when two concurrent add_produto calls for one user both report
\* success, the file holds both products.
C26_AmbosGuardados ==
  (\A c \in Chamadores : sessoes[c].pc = "fim" /\ sessoes[c].ok)
    => \A c \in Chamadores : TemValor(arq_produtos, "sku", sessoes[c].sku)

\* C30: two users registered with different emails have different data
\* folders.
C30_PastasDistintas ==
  \A i, j \in 1..Len(users_index) :
    users_index[i].email # users_index[j].email
      => users_index[i].user_folder_hash # users_index[j].user_folder_hash


====
